---- MODULE Spec2Model ----
(***************************************************************************)
(* A model of CobaldAnnotation/DatasetTools:                               *)
(*   - train_test_split.py : the stratified splitter (train_test_split and *)
(*     build_min_coverage), specification Spec;                            *)
(*   - src/parsing.py : the token parser (parse_token), specification      *)
(*     TokenSpec, and the streaming reader (parse_incr), specification     *)
(*     ReaderSpec.                                                         *)
(* Python values are tagged records: a str is [t |-> "str", v |-> chars]   *)
(* with chars a sequence of one-character strings, an int is               *)
(* [t |-> "int", v |-> n], None is [t |-> "NoneType"].  The text produced  *)
(* by json.dumps is [t |-> "json", v |-> members], members being the       *)
(* ordered <<key, value>> pairs of the JSON object.                        *)
(***************************************************************************)
EXTENDS Integers, Sequences, FiniteSets, TLC

VARIABLES
    pc,                      \* position of the running function
    exc,                     \* the exception raised, "" when none
    \* ---- train_test_split / build_min_coverage
    input,                   \* the caller's list of sentences
    sentences,               \* the local name `sentences`: positions of input
    train_fraction,          \* [num, den]
    tagsets_names,
    target_train_size,
    target_test_size,
    train_sentences,
    test_sentences,
    inv_tagsets,
    cover_sentences_indexes,
    \* ---- parse_token
    line,                    \* the argument of parse_token
    token,                   \* the token it returns
    \* ---- parse_incr
    file,                    \* the lines of the file
    pos,                     \* number of lines read
    metadata,
    token_lines,
    yielded                  \* the sentences yielded so far

splitVars == <<input, sentences, train_fraction, tagsets_names, target_train_size,
               target_test_size, train_sentences, test_sentences, inv_tagsets,
               cover_sentences_indexes>>
tokenVars == <<line, token>>
readerVars == <<file, pos, metadata, token_lines, yielded>>
vars == <<pc, exc, splitVars, tokenVars, readerVars>>

\* ------------------------------------------------------------------ bounds

MaxSentences == 4

\* ------------------------------------------------------------ Python values

None == [t |-> "NoneType"]
Str(chars) == [t |-> "str", v |-> chars]
PyInt(n) == [t |-> "int", v |-> n]
Json(members) == [t |-> "json", v |-> members]

Range(s) == {s[i] : i \in 1..Len(s)}

Abs(x) == IF x < 0 THEN -x ELSE x

SetMin(S) == CHOOSE x \in S : \A y \in S : x <= y

SetMax(S) == CHOOSE x \in S : \A y \in S : y <= x

\* json.loads: the dict of a JSON object text, a TypeError on None.
JsonLoads(x) ==
    IF x.t = "json" THEN [ok |-> TRUE, dict |-> x.v]
    ELSE [ok |-> FALSE, dict |-> <<>>]

\* dict.values() and the keys a dict iterates over (a dict is the sequence of
\* its <<key, value>> items).
DictValues(d) == {d[i][2] : i \in 1..Len(d)}
DictKeys(d) == {d[i][1] : i \in 1..Len(d)}

\* =================================================== train_test_split.py

ExtractDepsKeys(sentence, tagset_name) ==
    IF tagset_name = "deps"
    THEN UNION {DictKeys(JsonLoads(dep).dict) :
                  dep \in {d \in Range(sentence[tagset_name]) : d # None}}
    ELSE Range(sentence[tagset_name]) \ {None}

\* extract_sentence_tagset
extract_sentence_tagset(sentence, tagset_name) ==
    LET tagset ==
          IF tagset_name = "deps"
          THEN UNION {DictValues(JsonLoads(dep).dict) :
                        dep \in {d \in Range(sentence[tagset_name]) : d # None}}
          ELSE Range(sentence[tagset_name])
    IN tagset \ {None}

\* The sentence at 0-based position i of a pool of references into input.
PoolSentence(inp, pool, i) == inp[pool[i + 1]]

\* build_min_coverage, lines 25-41: the inverted tagsets of a pool.
BuildInvTagsets(inp, pool, names) ==
    LET idx == 0..(Len(pool) - 1)
        sentence_tagsets(i, name) == extract_sentence_tagset(PoolSentence(inp, pool, i), name)
        tagsets(name) == UNION {sentence_tagsets(i, name) : i \in idx}
    IN [name \in Range(names) |->
          [tag \in tagsets(name) |-> {i \in idx : tag \in sentence_tagsets(i, name)}]]

\* line 46: the number of uncovered tags.
UncoveredCount(inv) ==
    LET RECURSIVE Sum(_)
        Sum(S) == IF S = {} THEN 0
                  ELSE LET n == CHOOSE n \in S : TRUE
                       IN Cardinality(DOMAIN inv[n]) + Sum(S \ {n})
    IN Sum(DOMAIN inv)

\* lines 52-54: the frequency of the rarest tag of one inverted tagset.
RareFrequency(inv_tagset) ==
    SetMin({Cardinality(inv_tagset[tag]) : tag \in DOMAIN inv_tagset})

\* lines 48-58: the tagset the rarest tag is taken from: the first one, in the
\* order of tagsets_names, whose rarest tag is strictly rarer than all before.
RarestTagsetName(inv, names) ==
    LET nonempty == {k \in 1..Len(names) : DOMAIN inv[names[k]] # {}}
        best == SetMin({RareFrequency(inv[names[k]]) : k \in nonempty})
        first == SetMin({k \in nonempty : RareFrequency(inv[names[k]]) = best})
    IN names[first]

\* line 52: min() returns the first rarest tag in the dict's iteration order,
\* which is the iteration order of a set of strings: any of the tied ones.
RarestTags(inv, names) ==
    LET name == RarestTagsetName(inv, names)
    IN {tag \in DOMAIN inv[name] :
          Cardinality(inv[name][tag]) = RareFrequency(inv[name])}

PopRarestOnly(inv, name, rarest_tag, sentence_with_tag) ==
    [n \in DOMAIN inv |->
       IF n = name
       THEN [tag \in DOMAIN inv[n] \ {rarest_tag} |-> inv[n][tag]]
       ELSE inv[n]]

\* lines 62, 68-72: pop the rarest tag, then every tag of the chosen sentence.
RemoveCovered(inv, name, rarest_tag, sentence_with_tag) ==
    [n \in DOMAIN inv |->
       [tag \in {g \in DOMAIN inv[n] :
                   ~(n = name /\ g = rarest_tag) /\ sentence_with_tag \notin inv[n][g]}
          |-> inv[n][tag]]]

\* list comprehensions of lines 95/101 and 97/103 over a pool.
RECURSIVE Selected(_, _, _)
Selected(pool, cover, i) ==
    IF i >= Len(pool) THEN <<>>
    ELSE (IF i \in cover THEN <<pool[i + 1]>> ELSE <<>>) \o Selected(pool, cover, i + 1)

KeepAll(pool, cover) == pool

Remaining(pool, cover) == Selected(pool, (0..(Len(pool) - 1)) \ cover, 0)

\* numpy.isclose(a / n, f, atol=0.05) with numpy's default rtol=1e-05:
\* |a/n - f| <= 0.05 + 1e-05 * |f|, in integers.
IsClose(a, n, f) ==
    100000 * Abs(a * f.den - f.num * n) <= 5000 * n * f.den + f.num * n

\* ------------------------------------------------------------ the inputs

N_ == Str(<<"N">>)
V_ == Str(<<"V">>)
Key0 == Str(<<"0">>)
Key1 == Str(<<"1">>)
Subj == Str(<<"s">>)
Obj == Str(<<"o">>)

\* The sentences a pool is drawn from: upos tags N, V and deps relations s, o,
\* with absent (None) tags and a sentence that carries no tag at all.
Corpus ==
    { [upos |-> <<N_>>,       deps |-> <<Json(<< <<Key0, Subj>> >>)>>],
      [upos |-> <<N_, V_>>,   deps |-> <<None, None>>],
      [upos |-> <<None>>,     deps |-> <<Json(<< <<Key0, Subj>>, <<Key1, Obj>> >>)>>],
      [upos |-> <<V_, None>>, deps |-> <<None, Json(<< <<Key0, Obj>> >>)>>],
      [upos |-> <<None>>,     deps |-> <<None>>] }

TagsetsNames == { <<>>, <<"upos">>, <<"deps">>, <<"upos", "deps">> }

Fractions == { [num |-> 1, den |-> 2], [num |-> 7, den |-> 10], [num |-> 1, den |-> 1] }

Pools == UNION {[1..n -> Corpus] : n \in 0..MaxSentences}

Idle == <<>>

SplitIdle ==
    /\ input = Idle /\ sentences = Idle /\ train_fraction = Idle /\ tagsets_names = Idle
    /\ target_train_size = 0 /\ target_test_size = 0
    /\ train_sentences = Idle /\ test_sentences = Idle
    /\ inv_tagsets = Idle /\ cover_sentences_indexes = {}
TokenIdle == line = Idle /\ token = Idle
ReaderIdle ==
    /\ file = Idle /\ pos = 0 /\ metadata = Idle /\ token_lines = Idle /\ yielded = Idle

\* ------------------------------------------------------------ the actions

SplitInit ==
    /\ pc = "split"
    /\ exc = ""
    /\ input \in Pools
    /\ sentences = [i \in 1..Len(input) |-> i]
    /\ train_fraction \in Fractions
    /\ tagsets_names \in TagsetsNames
    /\ target_train_size = 0
    /\ target_test_size = 0
    /\ train_sentences = <<>>
    /\ test_sentences = <<>>
    /\ inv_tagsets = <<>>
    /\ cover_sentences_indexes = {}
    /\ TokenIdle /\ ReaderIdle

\* lines 82-83
InvalidFraction ==
    /\ pc = "split"
    /\ ~(0 < train_fraction.num /\ train_fraction.num < train_fraction.den)
    /\ pc' = "raised"
    /\ exc' = "ValueError"
    /\ UNCHANGED <<splitVars, tokenVars, readerVars>>

\* lines 85-90; int() truncates.
Targets ==
    /\ pc = "split"
    /\ 0 < train_fraction.num /\ train_fraction.num < train_fraction.den
    /\ target_train_size' = (train_fraction.num * Len(sentences)) \div train_fraction.den
    /\ target_test_size' = Len(sentences) - target_train_size'
    /\ train_sentences' = <<>>
    /\ test_sentences' = <<>>
    /\ pc' = "loop"
    /\ UNCHANGED <<exc, input, sentences, train_fraction, tagsets_names, inv_tagsets,
                   cover_sentences_indexes, tokenVars, readerVars>>

LoopCondition ==
    /\ Len(train_sentences) < target_train_size
    /\ Len(test_sentences) < target_test_size

\* line 92 true, line 94 to line 43: the train pass starts.
LoopEnter ==
    /\ pc = "loop"
    /\ LoopCondition
    /\ inv_tagsets' = BuildInvTagsets(input, sentences, tagsets_names)
    /\ cover_sentences_indexes' = {}
    /\ pc' = "train_cover"
    /\ UNCHANGED <<exc, input, sentences, train_fraction, tagsets_names, target_train_size,
                   target_test_size, train_sentences, test_sentences, tokenVars, readerVars>>

\* lines 46-72: one iteration of the while loop of build_min_coverage.
CoverIteration ==
    /\ pc \in {"train_cover", "test_cover"}
    /\ UncoveredCount(inv_tagsets) > 0
    /\ LET name == RarestTagsetName(inv_tagsets, tagsets_names)
       IN \E rarest_tag \in RarestTags(inv_tagsets, tagsets_names) :
            \E sentence_with_tag \in inv_tagsets[name][rarest_tag] :
               /\ cover_sentences_indexes' = cover_sentences_indexes \cup {sentence_with_tag}
               /\ inv_tagsets' = RemoveCovered(inv_tagsets, name, rarest_tag, sentence_with_tag)
    /\ UNCHANGED <<pc, exc, input, sentences, train_fraction, tagsets_names, target_train_size,
                   target_test_size, train_sentences, test_sentences, tokenVars, readerVars>>

\* line 74 then lines 95-100: the train cover moves to train, the test pass starts.
TrainPassEnd ==
    /\ pc = "train_cover"
    /\ UncoveredCount(inv_tagsets) = 0
    /\ train_sentences' = train_sentences \o Selected(sentences, cover_sentences_indexes, 0)
    /\ sentences' = Remaining(sentences, cover_sentences_indexes)
    /\ inv_tagsets' = BuildInvTagsets(input, sentences', tagsets_names)
    /\ cover_sentences_indexes' = {}
    /\ pc' = "test_cover"
    /\ UNCHANGED <<exc, input, train_fraction, tagsets_names, target_train_size,
                   target_test_size, test_sentences, tokenVars, readerVars>>

\* line 74 then lines 101-103: the test cover moves to test.
TestPassEnd ==
    /\ pc = "test_cover"
    /\ UncoveredCount(inv_tagsets) = 0
    /\ test_sentences' = test_sentences \o Selected(sentences, cover_sentences_indexes, 0)
    /\ sentences' = Remaining(sentences, cover_sentences_indexes)
    /\ pc' = "loop"
    /\ UNCHANGED <<exc, input, train_fraction, tagsets_names, target_train_size,
                   target_test_size, train_sentences, inv_tagsets, cover_sentences_indexes,
                   tokenVars, readerVars>>

\* line 92 false, lines 105-113: the bulk move, the assertions, the return.
LoopExit ==
    /\ pc = "loop"
    /\ ~LoopCondition
    /\ IF Len(train_sentences) < target_train_size
       THEN /\ train_sentences' = train_sentences \o sentences
            /\ UNCHANGED test_sentences
       ELSE /\ test_sentences' = test_sentences \o sentences
            /\ UNCHANGED train_sentences
    /\ IF Len(train_sentences') + Len(test_sentences') # Len(input)
       THEN pc' = "raised" /\ exc' = "AssertionError"
       ELSE IF Len(input) = 0
       THEN pc' = "raised" /\ exc' = "ZeroDivisionError"
       ELSE IF ~IsClose(Len(train_sentences'), Len(input), train_fraction)
       THEN pc' = "raised" /\ exc' = "AssertionError"
       ELSE pc' = "returned" /\ exc' = ""
    /\ UNCHANGED <<input, sentences, train_fraction, tagsets_names, target_train_size,
                   target_test_size, inv_tagsets, cover_sentences_indexes,
                   tokenVars, readerVars>>

Next ==
    \/ InvalidFraction
    \/ Targets
    \/ LoopEnter
    \/ CoverIteration
    \/ TrainPassEnd
    \/ TestPassEnd
    \/ LoopExit

Spec == SplitInit /\ [][Next]_vars

\* The interpreter runs the call to its end: a step that can be taken is taken.
LiveSpec == Spec /\ WF_vars(Next)

\* ========================================================= src/parsing.py

\* ---- str methods, on sequences of one-character strings

TAB == "\t"
Whitespace == {" ", TAB, "\n", "\r"}
Digits == <<"0", "1", "2", "3", "4", "5", "6", "7", "8", "9">>
Underscore == <<"_">>
NullForm == <<"#", "N", "U", "L", "L">>
Ellipsis == <<"e", "l", "l", "i", "p", "s", "i", "s">>

\* str.strip()
Strip(s) ==
    LET kept == {i \in 1..Len(s) : s[i] \notin Whitespace}
    IN IF kept = {} THEN <<>> ELSE SubSeq(s, SetMin(kept), SetMax(kept))

\* sep in s
Contains(s, sep) == \E i \in 1..Len(s) : s[i] = sep

FirstIndex(s, sep) == SetMin({i \in 1..Len(s) : s[i] = sep})

\* s.split(sep, 1)
SplitFirst(s, sep) ==
    IF Contains(s, sep)
    THEN <<SubSeq(s, 1, FirstIndex(s, sep) - 1), SubSeq(s, FirstIndex(s, sep) + 1, Len(s))>>
    ELSE <<s>>

\* s.split(sep): the segments between the occurrences of sep
Split(s, sep) ==
    LET seps == {i \in 1..Len(s) : s[i] = sep}
        \* the k-th occurrence of sep; 0 before the first, Len(s) + 1 after the last
        at(k) == IF k = 0 THEN 0
                 ELSE IF k > Cardinality(seps) THEN Len(s) + 1
                 ELSE CHOOSE p \in seps : Cardinality({q \in seps : q < p}) = k - 1
    IN [k \in 1..(Cardinality(seps) + 1) |-> SubSeq(s, at(k - 1) + 1, at(k) - 1)]

\* str.isdecimal()
IsDecimal(s) == s # <<>> /\ \A i \in 1..Len(s) : s[i] \in Range(Digits)

\* int(s) of a decimal string
RECURSIVE ToInt(_)
ToInt(s) ==
    IF s = <<>> THEN 0
    ELSE 10 * ToInt(SubSeq(s, 1, Len(s) - 1))
         + (CHOOSE d \in 0..9 : Digits[d + 1] = s[Len(s)])

\* Python's ==: values of different types are never equal.
PyEq(a, b) == a.t = b.t /\ a = b

\* ---- field level

\* parse_nullable
NullableOnlyEmpty(field) ==
    IF field = <<>> THEN None ELSE Str(field)

parse_nullable(field) ==
    IF field \in {<<>>, Underscore} THEN None ELSE Str(field)

\* is_null_index
is_null_index(x) ==
    LET parts == Split(x, ".")
    IN Len(parts) = 2 /\ IsDecimal(parts[1]) /\ IsDecimal(parts[2])

\* is_range_index
is_range_index(x) ==
    LET parts == Split(x, "-")
    IN Len(parts) = 2 /\ IsDecimal(parts[1]) /\ IsDecimal(parts[2])

Ok(value) == [ok |-> TRUE, val |-> value, err |-> ""]
Raise(message) == [ok |-> FALSE, val |-> None, err |-> message]

\* `value` is returned unless the call before it raised.
Then(result, value) == IF result.ok THEN Ok(value) ELSE result

\* parse_id
parse_id(field) ==
    IF ~IsDecimal(field) /\ ~is_null_index(field) /\ ~is_range_index(field)
    THEN Raise("Incorrect token id")
    ELSE Ok(Str(field))

\* parse_word
parse_word(field) ==
    IF field = <<>> THEN Raise("Token form cannot be empty") ELSE Ok(Str(field))

\* parse_joint_field, lines 53-59: the loop over the items. It raises at the
\* first item that has no inner separator (the unpacking fails) or whose key
\* an earlier item has; else every item is stored, in order.
JointItems(items, inner_sep) ==
    LET kv(i) == SplitFirst(items[i], inner_sep)
        unpack_fails == {i \in 1..Len(items) : Len(kv(i)) # 2}
        duplicates == {i \in 1..Len(items) :
                         /\ Len(kv(i)) = 2
                         /\ \E j \in 1..(i - 1) : Len(kv(j)) = 2 /\ kv(j)[1] = kv(i)[1]}
    IN IF unpack_fails \cup duplicates = {}
       THEN Ok([i \in 1..Len(items) |-> <<Str(kv(i)[1]), Str(kv(i)[2])>>])
       ELSE IF SetMin(unpack_fails \cup duplicates) \in unpack_fails
       THEN Raise("not enough values to unpack")
       ELSE Raise("duplicate key")

\* parse_joint_field
parse_joint_field(field, inner_sep, outer_sep) ==
    IF ~Contains(field, inner_sep) THEN Raise("must contain separator")
    ELSE JointItems(Split(field, outer_sep), inner_sep)

\* parse_feats
parse_feats(field) ==
    IF field \in {<<>>, Underscore} THEN Ok(None)
    ELSE Then(parse_joint_field(field, "=", "|"), Str(field))

\* parse_head
parse_head(field) ==
    IF field \in {<<>>, Underscore} THEN Ok(None)
    ELSE IF ~IsDecimal(field) THEN Raise("Non-empty head must be a decimal number")
    ELSE IF ToInt(field) < 0 THEN Raise("Non-empty head must be a positive integer")
    ELSE Ok(PyInt(ToInt(field)))

\* parse_deps, lines 92-98, of the result of line 90
ValidateDeps(token_deps) ==
    IF ~token_deps.ok THEN token_deps
    ELSE IF Len(token_deps.val) = 0 THEN Raise("Empty deps are not allowed")
    ELSE IF \E head \in DictKeys(token_deps.val) :
               ~IsDecimal(head.v) /\ ~is_null_index(head.v)
    THEN Raise("Deps head must be either integer or float")
    ELSE Ok(Json(token_deps.val))

\* parse_deps
parse_deps(field) ==
    IF field \in {<<>>, Underscore} THEN Ok(None)
    ELSE ValidateDeps(parse_joint_field(field, ":", "|"))

\* ---- token level

\* validate_null_token: "" when the token passes, else the error
validate_null_token(tok) ==
    IF ~PyEq(tok.word, Str(NullForm)) THEN "Null token must have #NULL form"
    ELSE IF tok.head # None THEN "Null token must have no head"
    ELSE IF tok.deprel # None THEN "Null token must have no deprel"
    ELSE IF ~PyEq(tok.misc, Str(Ellipsis)) THEN "Null token must have 'ellipsis' misc"
    ELSE ""

\* validate_range_token
validate_range_token(tok) ==
    IF ~PyEq(tok.lemma, Str(Underscore)) THEN "Range token lemma must be _"
    ELSE IF tok.upos # None THEN "Range token upos must be _"
    ELSE IF tok.xpos # None THEN "Range token xpos must be _"
    ELSE IF tok.feats # None THEN "Range token feats must be _"
    ELSE IF tok.head # None THEN "Range token head must be _"
    ELSE IF tok.deprel # None THEN "Range token deprel must be _"
    ELSE IF tok.misc # None THEN "Range token misc must be _"
    ELSE IF tok.deepslot # None THEN "Range token deepslot must be _"
    ELSE IF tok.semclass # None THEN "Range token semclass must be _"
    ELSE ""

\* validate_regular_token: head is an int or None and id a str, so line 135
\* compares values of different types; json.loads(None) raises TypeError.
validate_regular_token(tok) ==
    IF PyEq(tok.head, tok.id) THEN "Self-loop detected in head"
    ELSE IF ~JsonLoads(tok.deps).ok THEN "TypeError: the JSON object must be str"
    ELSE IF \E head \in DictKeys(JsonLoads(tok.deps).dict) : PyEq(head, tok.id)
    THEN "Self-loop detected in deps"
    ELSE ""

\* validate_token
validate_token(tok) ==
    IF IsDecimal(tok.id.v) THEN validate_regular_token(tok)
    ELSE IF is_range_index(tok.id.v) THEN validate_range_token(tok)
    ELSE IF is_null_index(tok.id.v) THEN validate_null_token(tok)
    ELSE "Incorrect token id"

\* line 155
TokenFields(l) ==
    LET raw == Split(l, TAB) IN [i \in 1..Len(raw) |-> Strip(raw[i])]

\* line 162
parse_lemma(field) == IF field # <<>> THEN Str(field) ELSE None

\* line 173, `error` the outcome of validate_token
Validated(value, error) == IF error # "" THEN Raise(error) ELSE Ok(value)

\* lines 159-173: the dict display evaluates its values in order, so the first
\* field parser that raises decides the error; then validate_token.
BuildToken(fields, id, word, feats, head, deps) ==
    IF ~id.ok THEN id
    ELSE IF ~word.ok THEN word
    ELSE IF ~feats.ok THEN feats
    ELSE IF ~head.ok THEN head
    ELSE IF ~deps.ok THEN deps
    ELSE Ok([id |-> id.val,
             word |-> word.val,
             lemma |-> parse_lemma(fields[3]),
             upos |-> parse_nullable(fields[4]),
             xpos |-> parse_nullable(fields[5]),
             feats |-> feats.val,
             head |-> head.val,
             deprel |-> parse_nullable(fields[8]),
             deps |-> deps.val,
             misc |-> parse_nullable(fields[10]),
             deepslot |-> parse_nullable(fields[11]),
             semclass |-> parse_nullable(fields[12])])

\* lines 173-178
ValidateBuilt(built) ==
    IF ~built.ok THEN built ELSE Validated(built.val, validate_token(built.val))

\* lines 156-178, of the fields of line 155
ParseFields(fields) ==
    IF Len(fields) # 12 THEN Raise("must have 12 fields")
    ELSE ValidateBuilt(BuildToken(fields, parse_id(fields[1]), parse_word(fields[2]),
                                  parse_feats(fields[6]), parse_head(fields[7]),
                                  parse_deps(fields[9])))

\* parse_token: [ok, val, err], val the token, err the cause of the ValueError
parse_token(l) == ParseFields(TokenFields(l))

\* ---- parse_token on one line

MaxEdits == 2

\* Three lines parse_token accepts: a regular, a range and a null token.
RegularFields ==
    << <<"1">>, <<"w">>, <<"l">>, <<"N">>, <<"_">>, <<"A", "=", "b">>, <<"0">>, <<"r">>,
       <<"0", ":", "r">>, <<"m">>, <<"d">>, <<"c">> >>
RangeFields ==
    << <<"1", "-", "2">>, <<"w">>, <<"_">>, <<"_">>, <<"_">>, <<"_">>, <<"_">>, <<"_">>,
       <<"_">>, <<"_">>, <<"_">>, <<"_">> >>
NullFields ==
    << <<"1", ".", "1">>, NullForm, <<"_">>, <<"_">>, <<"_">>, <<"_">>, <<"_">>, <<"_">>,
       <<"0", ":", "r">>, Ellipsis, <<"_">>, <<"_">> >>
Templates == {RegularFields, RangeFields, NullFields}

\* The values a column of a template may be replaced by.
Alternatives ==
    << << <<"1">>, <<"2">>, <<"1", "-", "2">>, <<"1", ".", "1">>, <<"x">> >>,
       << <<"w">>, NullForm, <<>> >>,
       << <<"_">>, <<>>, <<"l">>, <<" ", "l">> >>,
       << <<"_">>, <<>>, <<"N">>, <<" ", "N", " ">> >>,
       << <<"_">>, <<"X">> >>,
       << <<"_">>, <<"A", "=", "b">>, <<"A">>, <<"A", "=", "b", "|", "A", "=", "c">>,
          <<"A", "=", "b", "|", "C">> >>,
       << <<"_">>, <<"0">>, <<"1">>, <<"2">>, <<"x">> >>,
       << <<"_">>, <<"r">>, <<" ">> >>,
       << <<"_">>, <<>>, <<"1", ":", "r">>, <<"2", ":", "r">>, <<"1", ".", "1", ":", "r">>,
          <<"x", ":", "r">>, <<"r">>, <<"0", ":", "r", "|", "1", ":", "s">>,
          <<"0", ":", "r", ":", "s">> >>,
       << <<"_">>, Ellipsis, <<"m">> >>,
       << <<"_">>, <<"d">>, <<>> >>,
       << <<"_">>, <<"c">>, <<>> >> >>

Columns ==
    <<"id", "word", "lemma", "upos", "xpos", "feats", "head", "deprel", "deps", "misc",
      "deepslot", "semclass">>

\* "\t".join(fields)
RECURSIVE JoinFrom(_, _)
JoinFrom(fields, i) ==
    IF i > Len(fields) THEN <<>>
    ELSE IF i = Len(fields) THEN fields[i]
    ELSE fields[i] \o <<TAB>> \o JoinFrom(fields, i + 1)

Join(fields) == JoinFrom(fields, 1)

AlternativeIndexes == 1..SetMin({n \in 1..20 : \A c \in 1..12 : Len(Alternatives[c]) <= n})

\* A template with at most MaxEdits columns replaced, and possibly one column
\* dropped or added.
EditedFields ==
    { [c \in 1..12 |-> IF c \in DOMAIN choice THEN Alternatives[c][choice[c]] ELSE tmpl[c]] :
        tmpl \in Templates,
        choice \in { ch \in UNION {[cols -> AlternativeIndexes] :
                                     cols \in {S \in SUBSET (1..12) : Cardinality(S) <= MaxEdits}} :
                       \A c \in DOMAIN ch : ch[c] <= Len(Alternatives[c]) } }

TokenLines ==
    { Join(fields) : fields \in EditedFields }
    \cup { Join(SubSeq(tmpl, 1, 11)) : tmpl \in Templates }
    \cup { Join(Append(tmpl, <<"_">>)) : tmpl \in Templates }

TokenInit ==
    /\ pc = "parse_token"
    /\ exc = ""
    /\ line \in TokenLines
    /\ token = Idle
    /\ SplitIdle /\ ReaderIdle

\* parse_token returns (line 178)
TokenReturn ==
    /\ pc = "parse_token"
    /\ \E parsed \in {parse_token(line)} :
          /\ parsed.ok
          /\ token' = parsed.val
    /\ pc' = "returned"
    /\ UNCHANGED <<exc, line, splitVars, readerVars>>

\* parse_token raises (line 176)
TokenRaise ==
    /\ pc = "parse_token"
    /\ ~parse_token(line).ok
    /\ pc' = "raised"
    /\ exc' = "ValueError"
    /\ UNCHANGED <<line, token, splitVars, readerVars>>

TokenNext == TokenReturn \/ TokenRaise

TokenSpec == TokenInit /\ [][TokenNext]_vars

\* ---- sentence level

ROOT_HEAD == PyInt(0)

SentenceKeys ==
    <<"ids", "words", "lemmas", "upos", "xpos", "feats", "heads", "deprels", "deps", "miscs",
      "deepslots", "semclasses">>

\* validate_sentence: "" when the sentence passes, else the error
validate_sentence(sentence) ==
    LET num_words == Len(sentence.words)
        ids == Range(sentence.ids)
        int_ids == {ToInt(idtag.v) : idtag \in {i \in ids : IsDecimal(i.v)}}
        has_labels == \E head \in Range(sentence.heads) : head # None
        roots_count == Cardinality({i \in 1..Len(sentence.heads) :
                                      PyEq(sentence.heads[i], ROOT_HEAD)})
        sentence_heads == {head \in Range(sentence.heads) :
                             head # None /\ ~PyEq(head, ROOT_HEAD)}
        excess_heads == {head.v : head \in sentence_heads} \ int_ids
        sentence_deps_heads ==
            UNION {{head \in DictKeys(JsonLoads(deps).dict) : ~PyEq(head, Str(<<"0">>))} :
                     deps \in {d \in Range(sentence.deps) : d # None}}
        excess_deps_heads == sentence_deps_heads \ ids
    IN IF num_words = 0 THEN "Empty sentence"
       ELSE IF \E k \in Range(SentenceKeys) : Len(sentence[k]) # num_words
       THEN "Inconsistent token counts in sentence"
       ELSE IF int_ids = {} THEN "min() arg is an empty sequence"
       ELSE IF int_ids # SetMin(int_ids)..(-SetMin({-i : i \in int_ids}))
       THEN "ids are not contiguous"
       ELSE IF has_labels /\ roots_count # 1 THEN "There must be exactly one ROOT in a sentence"
       ELSE IF excess_heads # {} THEN "Heads are inconsistent with sentence ids"
       ELSE IF excess_deps_heads # {} THEN "Deps heads are inconsistent with sentence ids"
       ELSE ""

\* parse_sentence, lines 242-269: the columns of the parsed tokens, or the
\* error of the first line that parse_token rejects.
ColumnsOf(parsed) ==
    LET rejected == {i \in 1..Len(parsed) : ~parsed[i].ok}
    IN IF rejected # {} THEN parsed[SetMin(rejected)]
       ELSE Ok([k \in Range(SentenceKeys) |->
                  [i \in 1..Len(parsed) |->
                     parsed[i].val[Columns[CHOOSE c \in 1..12 : SentenceKeys[c] = k]]]])

SentenceColumns(lines) == ColumnsOf([i \in 1..Len(lines) |-> parse_token(lines[i])])

\* dict | dict: the right operand's items win.
DictUnion(left, right) == right @@ left

\* lines 270-275
ValidateColumns(columns, meta) ==
    IF ~columns.ok THEN columns
    ELSE Validated(DictUnion(columns.val, meta), validate_sentence(columns.val))

\* parse_sentence
parse_sentence(lines, meta) == ValidateColumns(SentenceColumns(lines), meta)

\* ---- parse_incr

MaxLines == 4

SentIdChars == <<"s", "e", "n", "t", "_", "i", "d">>
TextChars == <<"t", "e", "x", "t">>

\* The lines of a file: blank and whitespace-only lines, metadata lines
\* (sent_id twice, text, another key, no `=`) and token lines (ids 1 and 2,
\* and one that does not parse).
ReaderLines ==
    { <<>>,
      <<" ">>,
      <<"#", " ">> \o SentIdChars \o <<" ", "=", " ", "a">>,
      <<"#">> \o SentIdChars \o <<"=", "b">>,
      <<"#", " ">> \o TextChars \o <<" ", "=", " ", "t">>,
      <<"#", " ", "k", " ", "=", " ", "v">>,
      <<"#", " ", "c">>,
      Join(RegularFields),
      Join(<< <<"2">>, <<"v">>, <<"_">>, <<"V">>, <<"_">>, <<"_">>, <<"1">>, <<"r">>,
              <<"1", ":", "r">>, <<"_">>, <<"_">>, <<"_">> >>),
      <<"x">> }

Files == UNION {[1..n -> ReaderLines] : n \in 0..MaxLines}

PrependTokenLine(lines, l) == <<l>> \o lines

\* line 327
AppendTokenLine(lines, l) == Append(lines, l)

\* lines 318-324: the metadata after a metadata line
MetadataAfter(meta, l) ==
    IF ~Contains(l, "=") THEN meta
    ELSE LET kv == SplitFirst(Tail(l), "=")
             key == Strip(kv[1])
             value == Strip(kv[2])
         IN IF key \in {SentIdChars, TextChars}
            THEN LET name == IF key = SentIdChars THEN "sent_id" ELSE "text"
                 IN [k \in DOMAIN meta \cup {name} |->
                       IF k = name THEN Str(value) ELSE meta[k]]
            ELSE meta

ReaderInit ==
    /\ pc = "parse_incr"
    /\ exc = ""
    /\ file \in Files
    /\ pos = 0
    /\ metadata = <<>>
    /\ token_lines = <<>>
    /\ yielded = <<>>
    /\ SplitIdle /\ TokenIdle

\* lines 312-314, `parsed` the outcome of parse_sentence
YieldAndClear(parsed) ==
    IF parsed.ok
    THEN /\ yielded' = Append(yielded, parsed.val)
         /\ metadata' = <<>>
         /\ token_lines' = <<>>
         /\ UNCHANGED <<pc, exc>>
    ELSE /\ pc' = "raised"
         /\ exc' = "ValueError"
         /\ UNCHANGED <<yielded, metadata, token_lines>>

\* lines 307-315: a blank line
BlankLine ==
    /\ pc = "parse_incr"
    /\ pos < Len(file)
    /\ Strip(file[pos + 1]) = <<>>
    /\ pos' = pos + 1
    /\ IF token_lines # <<>>
       THEN YieldAndClear(parse_sentence(token_lines, metadata))
       ELSE UNCHANGED <<pc, exc, yielded, metadata, token_lines>>
    /\ UNCHANGED <<file, splitVars, tokenVars>>

\* lines 307-308, 316-325: a metadata line
MetadataLine ==
    /\ pc = "parse_incr"
    /\ pos < Len(file)
    /\ Strip(file[pos + 1]) # <<>>
    /\ Strip(file[pos + 1])[1] = "#"
    /\ pos' = pos + 1
    /\ metadata' = MetadataAfter(metadata, Strip(file[pos + 1]))
    /\ UNCHANGED <<pc, exc, file, token_lines, yielded, splitVars, tokenVars>>

\* lines 307-308, 326-327: a token line
TokenLine ==
    /\ pc = "parse_incr"
    /\ pos < Len(file)
    /\ Strip(file[pos + 1]) # <<>>
    /\ Strip(file[pos + 1])[1] # "#"
    /\ pos' = pos + 1
    /\ token_lines' = AppendTokenLine(token_lines, Strip(file[pos + 1]))
    /\ UNCHANGED <<pc, exc, file, metadata, yielded, splitVars, tokenVars>>

\* line 331, `parsed` the outcome of parse_sentence
YieldLast(parsed) ==
    IF parsed.ok
    THEN /\ yielded' = Append(yielded, parsed.val)
         /\ pc' = "returned"
         /\ UNCHANGED exc
    ELSE /\ pc' = "raised"
         /\ exc' = "ValueError"
         /\ UNCHANGED yielded

\* lines 329-331: the end of the file
EndOfInput ==
    /\ pc = "parse_incr"
    /\ pos = Len(file)
    /\ IF token_lines # <<>>
       THEN YieldLast(parse_sentence(token_lines, metadata))
       ELSE /\ pc' = "returned"
            /\ UNCHANGED <<exc, yielded>>
    /\ UNCHANGED <<file, pos, metadata, token_lines, splitVars, tokenVars>>

ReaderNext == BlankLine \/ MetadataLine \/ TokenLine \/ EndOfInput

ReaderSpec == ReaderInit /\ [][ReaderNext]_vars

\* ------------------------------------------------------ splitter properties

\* A tag value occurs in a sentence, in a category: a non-null entry of the
\* category's column or, for deps, a relation value of one of its mappings.
TagOccurs(sentence, category, tag) ==
    /\ tag # None
    /\ \E i \in 1..Len(sentence[category]) :
         LET entry == sentence[category][i]
         IN IF category = "deps"
            THEN entry # None /\ \E m \in 1..Len(entry.v) : entry.v[m][2] = tag
            ELSE entry = tag

TagValues == {N_, V_, Subj, Obj, Key0, Key1}

NoDuplicates(s) == \A i, j \in 1..Len(s) : i # j => s[i] # s[j]

\* The state in which build_min_coverage returns (line 74).
CoverReturns ==
    /\ pc \in {"train_cover", "test_cover"}
    /\ UncoveredCount(inv_tagsets) = 0

\* The positions of `cover` hit every tag of the pool.
Hits(cover) ==
    \A category \in Range(tagsets_names) : \A tag \in TagValues :
        (\E i \in 0..(Len(sentences) - 1) :
            TagOccurs(PoolSentence(input, sentences, i), category, tag))
        => (\E j \in cover : TagOccurs(PoolSentence(input, sentences, j), category, tag))

\* C1 (as claimed): on return, every tag value that occurs in at least two input
\* sentences, in a requested category, occurs in a train and in a test sentence.
C1_SplitCoverage ==
    pc = "returned" =>
      \A category \in Range(tagsets_names) : \A tag \in TagValues :
         Cardinality({i \in 1..Len(input) : TagOccurs(input[i], category, tag)}) >= 2
         => /\ \E r \in Range(train_sentences) : TagOccurs(input[r], category, tag)
            /\ \E r \in Range(test_sentences) : TagOccurs(input[r], category, tag)

\* C2 (as claimed): for a non-empty input and a valid fraction, the function
\* reaches its end with |train| / N close to f: the assertion of line 111 holds.
C2_SplitFraction ==
    (pc \in {"returned", "raised"} /\ exc # "ValueError" /\ Len(input) > 0)
    => /\ exc # "AssertionError"
       /\ IsClose(Len(train_sentences), Len(input), train_fraction)

PartitionInv ==
    /\ pc \in {"loop", "train_cover", "test_cover"} =>
         /\ NoDuplicates(train_sentences \o test_sentences \o sentences)
         /\ Range(train_sentences \o test_sentences \o sentences) = 1..Len(input)
    /\ pc = "returned" =>
         /\ NoDuplicates(train_sentences \o test_sentences)
         /\ Range(train_sentences \o test_sentences) = 1..Len(input)
         /\ Len(train_sentences) + Len(test_sentences) = Len(input)

\* C3: after every covering pass train, test and the remaining pool are pairwise
\* disjoint and hold each input position exactly once; on return train and test
\* alone do, and |train| + |test| = N; the caller's list is never modified.
C3_Partition == [](PartitionInv) /\ [][input' = input]_vars

C3_Witness ==
    /\ pc = "returned"
    /\ Len(train_sentences) >= 2
    /\ Len(test_sentences) >= 2
    /\ Len(sentences) > 0

\* C4: build_min_coverage terminates (every iteration of its loop removes at
\* least one uncovered tag) and the positions it returns hit every non-null tag
\* value of the pool in every listed category, relation values for deps.
C4_HittingSet ==
    /\ [](CoverReturns =>
            /\ cover_sentences_indexes \subseteq 0..(Len(sentences) - 1)
            /\ Hits(cover_sentences_indexes))
    /\ [][(pc \in {"train_cover", "test_cover"} /\ pc' = pc)
            => UncoveredCount(inv_tagsets') < UncoveredCount(inv_tagsets)]_vars

C4_Witness ==
    /\ CoverReturns
    /\ "deps" \in Range(tagsets_names)
    /\ Cardinality(cover_sentences_indexes) >= 2
    /\ Cardinality(cover_sentences_indexes) < Len(sentences)

\* C5 (as claimed): no strict subset of the returned cover hits the full tag set.
C5_LocalMinimality ==
    CoverReturns =>
      \A sub \in SUBSET cover_sentences_indexes :
          sub # cover_sentences_indexes => ~Hits(sub)

\* C5 (amended): every iteration adds one new position, whose sentence carries
\* a tag that no sentence selected before it carries.
C5_SelectionAddsNewTag ==
    [][(pc \in {"train_cover", "test_cover"} /\ pc' = pc) =>
         \E s \in cover_sentences_indexes' \ cover_sentences_indexes :
            /\ cover_sentences_indexes' = cover_sentences_indexes \cup {s}
            /\ \E category \in Range(tagsets_names) : \E tag \in TagValues :
                 /\ TagOccurs(PoolSentence(input, sentences, s), category, tag)
                 /\ \A j \in cover_sentences_indexes :
                      ~TagOccurs(PoolSentence(input, sentences, j), category, tag)]_vars

\* A returned cover of three positions of which two already hit every tag.
C5_Witness ==
    /\ CoverReturns
    /\ Cardinality(cover_sentences_indexes) = 3
    /\ \E sub \in SUBSET cover_sentences_indexes :
          Cardinality(sub) = 2 /\ Hits(sub)

\* -------------------------------------------------------- token properties

\* The column of the line as written, and trimmed.
RawColumn(l, c) == Split(l, TAB)[c]
TrimmedColumn(l, c) == Strip(RawColumn(l, c))

\* C6 (as claimed): no regular token parse_token accepts has a self-loop: its
\* head differs from its id and no key of its deps equals its id.
C6_SelfLoopRejected ==
    (pc = "returned" /\ IsDecimal(token.id.v))
    => /\ token.head = None \/ token.head.v # ToInt(token.id.v)
       /\ token.deps = None \/ \A k \in DictKeys(token.deps.v) : k.v # token.id.v

\* A 12-field line with a decimal id, a non-empty form, an absent deps column
\* and well-formed other columns (no self-loop in head).
RegularWithoutDeps(l) ==
    /\ Len(Split(l, TAB)) = 12
    /\ IsDecimal(TrimmedColumn(l, 1))
    /\ TrimmedColumn(l, 2) # <<>>
    /\ parse_feats(TrimmedColumn(l, 6)).ok
    /\ parse_head(TrimmedColumn(l, 7)).ok
    /\ ~(IsDecimal(TrimmedColumn(l, 7)) /\ ToInt(TrimmedColumn(l, 7)) = ToInt(TrimmedColumn(l, 1)))
    /\ TrimmedColumn(l, 9) \in {<<>>, Underscore}

\* C7 (as claimed): parse_token accepts every regular token line whose deps
\* column is absent and whose other columns are well-formed.
C7_DepsOptional ==
    (pc \in {"returned", "raised"} /\ RegularWithoutDeps(line)) => pc = "returned"

NullableColumns == {3, 4, 5, 6, 8, 10, 11, 12}

\* C8 (as claimed): each nullable column of an accepted token is None when the
\* column is `_` or empty, and exactly the column's string otherwise.
C8_NullableRoundTrip ==
    pc = "returned" =>
      \A c \in NullableColumns :
         token[Columns[c]] = (IF RawColumn(line, c) \in {<<>>, Underscore}
                              THEN None ELSE Str(RawColumn(line, c)))

\* C8 (amended): the same of the trimmed column, for all columns but lemma;
\* lemma is None only when empty, and `_` is stored as the string `_`.
C8_NullableColumnsTrimmed ==
    pc = "returned" =>
      /\ \A c \in NullableColumns \ {3} :
            token[Columns[c]] = (IF TrimmedColumn(line, c) \in {<<>>, Underscore}
                                 THEN None ELSE Str(TrimmedColumn(line, c)))
      /\ token.lemma = (IF TrimmedColumn(line, 3) = <<>>
                        THEN None ELSE Str(TrimmedColumn(line, 3)))

\* An accepted token with lemma `_` kept, an absent xpos and a trimmed upos.
C8_Witness ==
    /\ pc = "returned"
    /\ token.lemma = Str(Underscore)
    /\ token.xpos = None
    /\ token.upos = Str(<<"N">>)
    /\ RawColumn(line, 4) # <<"N">>

\* ------------------------------------------------------- reader properties

IsBlank(l) == Strip(l) = <<>>
IsTokenLine(l) == ~IsBlank(l) /\ Strip(l)[1] # "#"

\* The sentence blocks of the file: the maximal runs <<a, b>> of non-blank
\* lines that hold at least one token line.
TokenRuns ==
    LET blank == {i \in 1..Len(file) : IsBlank(file[i])}
        tokens == {i \in 1..Len(file) : IsTokenLine(file[i])}
    IN { r \in (1..Len(file)) \X (1..Len(file)) :
           /\ r[1] <= r[2]
           /\ (r[1]..r[2]) \cap blank = {}
           /\ r[1] = 1 \/ r[1] - 1 \in blank
           /\ r[2] = Len(file) \/ r[2] + 1 \in blank
           /\ (r[1]..r[2]) \cap tokens # {} }

\* The k-th of the blocks `runs` in file order.
RunAt(runs, k) ==
    CHOOSE r \in runs : Cardinality({q \in runs : q[1] < r[1]}) = k - 1

\* The trimmed token lines of a block, in their order in the file.
RunTokenLines(r) ==
    LET at == {i \in r[1]..r[2] : IsTokenLine(file[i])}
    IN [j \in 1..Cardinality(at) |->
          Strip(file[CHOOSE i \in at : Cardinality({q \in at : q < i}) = j - 1])]

\* The value the metadata lines of a block give a key: that of the last line
\* of the block that sets it, None when no line does.
RunMetadata(r, key) ==
    LET at == {i \in r[1]..r[2] :
                 ~IsTokenLine(file[i]) /\ key \in DOMAIN MetadataAfter(<<>>, Strip(file[i]))}
    IN IF at = {} THEN None ELSE MetadataAfter(<<>>, Strip(file[SetMax(at)]))[key]

\* The columns of a yielded sentence, without its metadata.
ColumnsOnly(sentence) == [c \in Range(SentenceKeys) |-> sentence[c]]

\* C9: when parse_incr reaches the end of a file whose blocks all validate, it
\* has yielded exactly one Sentence per block, in file order, each built from
\* exactly the token lines of its block in their original order.
C9_BlockEmission ==
    pc = "returned" =>
      LET runs == TokenRuns
      IN /\ Len(yielded) = Cardinality(runs)
         /\ \A k \in 1..Len(yielded) :
               parse_sentence(RunTokenLines(RunAt(runs, k)), <<>>)
                 = Ok(ColumnsOnly(yielded[k]))

\* Two blocks, the first of two tokens, the last one ended by the end of input.
C9_Witness ==
    /\ pc = "returned"
    /\ Len(yielded) = 2
    /\ Len(yielded[1].ids) = 2
    /\ ~IsBlank(file[Len(file)])

\* C10 (as claimed): a yielded Sentence carries only the sent_id and text its
\* own block's metadata lines give it.
C10_MetadataScoping ==
    LET runs == TokenRuns
    IN \A k \in 1..Len(yielded) : \A key \in {"sent_id", "text"} :
          IF key \in DOMAIN yielded[k]
          THEN yielded[k][key] = RunMetadata(RunAt(runs, k), key)
          ELSE RunMetadata(RunAt(runs, k), key) = None

\* ------------------------------------------------- allocation loop progress

\* C11 (as claimed): the allocation loop exits, train_test_split returning or
\* raising, and while neither side has reached its target every iteration
\* takes at least one sentence out of the remaining pool.
C11_LoopTerminates ==
    /\ <>(pc \in {"returned", "raised"})
    /\ \A n \in 0..MaxSentences :
          (pc = "loop" /\ LoopCondition /\ Len(sentences) = n)
             ~> (pc = "loop" /\ Len(sentences) < n)

====
